---------------------------- MODULE Spec2Model ----------------------------
(***************************************************************************)
(* Model of roboticstoolbox/robot/ets.py: the Elementary Transform         *)
(* Sequence (ETS) class, its DH adapter dh_to_ets and its kinematic        *)
(* operations fkine, jacob0, hessian0, manipulability and jacobm.          *)
(*                                                                         *)
(* Arithmetic is exact.  Lengths are integers and angles are counted in    *)
(* quarter turns (units of pi/2), so that every sine and cosine is one of  *)
(* -1, 0, 1 and every homogeneous transform is an integer 4x4 matrix.      *)
(* Python indices are kept 0-based as in the source; the sequences that    *)
(* hold lists and arrays are 1-based, hence the "+ 1" at each subscript.   *)
(***************************************************************************)
EXTENDS Integers, Sequences, FiniteSets, TLC

VARIABLES
    self,     \* the ETS object: its fields _ets, _q_idx, _base, _tool, _T, _M, _n, _q
    built,    \* history: the object as its constructor left it
    pc,       \* "idle", the method whose body is running ("fkine", "jacob0",
              \* "dh_to_ets"), "returned" after a call, "done" after dh_to_ets
    arg,      \* the arguments of the running (or last) call
    loc,      \* the local variables of the running method
    ret       \* what the last finished call returned or raised

vars == <<self, built, pc, arg, loc, ret>>

(***************************************************************************)
(* Bounds of the model.                                                    *)
(***************************************************************************)
MaxM == 2          \* longest element sequence given to the constructor
MaxQ == 1          \* joint coordinates are drawn from 0..MaxQ
MaxLinks == 2      \* most links of a robot description given to dh_to_ets
MaxDH == 1         \* DH parameters a, alpha, d, theta are drawn from 0..MaxDH

\* F applied to the value of v, with v evaluated once before F is entered
Strict(F(_), v) == CHOOSE r \in {F(x) : x \in {v}} : TRUE

None == <<>>                      \* Python's None: an absent optional value
Some(v) == <<v>>                  \* a present optional value

(***************************************************************************)
(* Small linear algebra (numpy's @, transpose, cross, det, inv).           *)
(***************************************************************************)
RECURSIVE SumTo(_, _)
SumTo(f, k) == IF k = 0 THEN 0 ELSE f[k] + SumTo(f, k - 1)

\* A is r x k, B is k x c
MatMul(A, B, r, k, c) ==
    [x \in 1..r |-> [y \in 1..c |-> SumTo([z \in 1..k |-> A[x][z] * B[z][y]], k)]]

Mul4(A, B) ==
    [x \in 1..4 |-> [y \in 1..4 |->
        A[x][1] * B[1][y] + A[x][2] * B[2][y] + A[x][3] * B[3][y] + A[x][4] * B[4][y]]]

\* A is r x c
Transpose(A, r, c) == [y \in 1..c |-> [x \in 1..r |-> A[x][y]]]

eye4 == <<<<1, 0, 0, 0>>, <<0, 1, 0, 0>>, <<0, 0, 1, 0>>, <<0, 0, 0, 1>>>>

cross(a, b) == <<a[2] * b[3] - a[3] * b[2],
                 a[3] * b[1] - a[1] * b[3],
                 a[1] * b[2] - a[2] * b[1]>>

\* A (n x n) without row r and column c
Minor2(A, r, c, n) ==
    [x \in 1..(n - 1) |->
        [y \in 1..(n - 1) |-> A[IF x < r THEN x ELSE x + 1][IF y < c THEN y ELSE y + 1]]]

\* The determinant by elimination with row exchanges, as the LU factorisation
\* behind numpy.linalg.det, in its fraction-free (exact) form: at step k the
\* first row p >= k with a nonzero entry in column k is exchanged with row k,
\* and the rows below are reduced; prev is the previous pivot.
RECURSIVE det_elim(_, _, _, _, _)
det_elim(A, k, n, prev, sign) ==
    IF k > n THEN sign * prev
    ELSE LET rows == {p \in k..n : A[p][k] # 0} IN
         IF rows = {} THEN 0
         ELSE LET p == CHOOSE x \in rows : \A y \in rows : x <= y
                  B == [A EXCEPT ![k] = A[p], ![p] = A[k]]
                  C == [x \in 1..n |-> [y \in 1..n |->
                          IF x > k /\ y > k
                          THEN (B[k][k] * B[x][y] - B[x][k] * B[k][y]) \div prev
                          ELSE B[x][y]]]
              IN  Strict(LAMBDA D : det_elim(D, k + 1, n, B[k][k], IF p = k THEN sign ELSE -sign),
                         C)

det(A, n) == det_elim(A, 1, n, 1, 1)

\* adjugate: adj[r][c] is the cofactor of A[c][r]
adjugate(A, n) ==
    [r \in 1..n |-> [c \in 1..n |->
        (IF (r + c) % 2 = 0 THEN 1 ELSE -1) * det(Minor2(A, c, r, n), n - 1)]]

\* numpy.linalg.inv: raises LinAlgError on a singular matrix; otherwise the
\* inverse is adj / d, kept as the exact pair (adj, d).
inv(A, n) ==
    Strict(LAMBDA d :
        IF d = 0 THEN [err |-> "LinAlgError", adj |-> <<>>, d |-> 0]
        ELSE [err |-> "ok", adj |-> adjugate(A, n), d |-> d],
        det(A, n))

(***************************************************************************)
(* The elementary transform (class ET of roboticstoolbox.robot.ET).        *)
(***************************************************************************)
STATIC == 0
VARIABLE_ET == 1

Cos(k) == <<1, 0, -1, 0>>[(k % 4) + 1]
Sin(k) == <<0, 1, 0, -1>>[(k % 4) + 1]

Ttx(d) == <<<<1, 0, 0, d>>, <<0, 1, 0, 0>>, <<0, 0, 1, 0>>, <<0, 0, 0, 1>>>>
Tty(d) == <<<<1, 0, 0, 0>>, <<0, 1, 0, d>>, <<0, 0, 1, 0>>, <<0, 0, 0, 1>>>>
Ttz(d) == <<<<1, 0, 0, 0>>, <<0, 1, 0, 0>>, <<0, 0, 1, d>>, <<0, 0, 0, 1>>>>
TRx(k) == <<<<1, 0, 0, 0>>, <<0, Cos(k), -Sin(k), 0>>, <<0, Sin(k), Cos(k), 0>>, <<0, 0, 0, 1>>>>
TRy(k) == <<<<Cos(k), 0, Sin(k), 0>>, <<0, 1, 0, 0>>, <<-Sin(k), 0, Cos(k), 0>>, <<0, 0, 0, 1>>>>
TRz(k) == <<<<Cos(k), -Sin(k), 0, 0>>, <<Sin(k), Cos(k), 0, 0>>, <<0, 0, 1, 0>>, <<0, 0, 0, 1>>>>

axis_func(name, v) ==
    CASE name = "Ttx" -> Ttx(v)
      [] name = "Tty" -> Tty(v)
      [] name = "Ttz" -> Ttz(v)
      [] name = "TRx" -> TRx(v)
      [] name = "TRy" -> TRy(v)
      [] name = "TRz" -> TRz(v)

\* et(axis_func, eta) / et(axis_func, i=k): a transform is fixed when it is
\* given its parameter eta and variable when it is not.
et(f, eta, i) ==
    [axis_func |-> f, eta |-> eta, i |-> i,
     type |-> IF eta = None THEN VARIABLE_ET ELSE STATIC]

\* ET.T(q): the 4x4 transform; p is None for the call T() and Some(v) for T(v)
ET_T(e, p) ==
    IF e.type = STATIC
    THEN IF p # None THEN [err |-> "InvalidArgument", T |-> eye4]
         ELSE [err |-> "ok", T |-> axis_func(e.axis_func, e.eta[1])]
    ELSE IF p = None THEN [err |-> "InvalidArgument", T |-> eye4]
         ELSE [err |-> "ok", T |-> axis_func(e.axis_func, p[1])]

(***************************************************************************)
(* ETS.__init__                                                            *)
(***************************************************************************)
zeros(n) == [k \in 1..n |-> 0]

ETS_init(et_list, q_idx, name, manufacturer, base, tool) ==
    [name |-> name, manuf |-> manufacturer, ets |-> et_list, q_idx |-> q_idx,
     base |-> base, tool |-> tool, T |-> eye4,
     M |-> Len(et_list), n |-> Len(q_idx), q |-> zeros(Len(q_idx))]

(***************************************************************************)
(* ETS.dh_to_ets                                                           *)
(***************************************************************************)
dh_locals == [ets |-> <<>>, q_idx |-> <<>>, M |-> 0, err |-> "ok"]

\* ets.append(e); M += 1
dh_append(st, e) == [st EXCEPT !.ets = Append(st.ets, e), !.M = st.M + 1]

\* ets.append(e); q_idx.append(M); M += 1
dh_append_joint(st, e) ==
    [st EXCEPT !.ets = Append(st.ets, e), !.q_idx = Append(st.q_idx, st.M), !.M = st.M + 1]

\* The body of the loop for link j.  The body names the transform class et,
\* which the module does not import (it imports ET): et_bound says whether the
\* module namespace binds that name to the class when the method runs; when it
\* does not, the first reference raises NameError.
dh_to_ets_iter(robot, et_bound, st, j) ==
    LET L == robot.links[j + 1] IN
    IF ~robot.mdh THEN st
    ELSE IF ~et_bound THEN [st EXCEPT !.err = "NameError"]
    ELSE LET s1 == IF L.a # 0 THEN dh_append(st, et("Ttx", Some(L.a), None)) ELSE st
             s2 == IF L.alpha # 0 THEN dh_append(s1, et("TRx", Some(L.alpha), None)) ELSE s1
         IN  IF L.is_revolute
             THEN LET s3 == IF L.d # 0 THEN dh_append(s2, et("Ttz", Some(L.d), None)) ELSE s2
                  IN  dh_append_joint(s3, et("TRz", None, Some(j + 1)))
             ELSE LET s3 == dh_append_joint(s2, et("Ttz", None, Some(j + 1)))
                  IN  IF L.theta # 0 THEN dh_append(s3, et("TRz", Some(L.alpha), None))
                      ELSE s3

(***************************************************************************)
(* ETS.fkine                                                               *)
(***************************************************************************)
fkine_locals == [j |-> 0, trans |-> eye4, err |-> "ok", reads |-> <<>>]

\* fkine_iter with the product taken on the left: trans = T @ trans
fkine_iter_premultiply(ets, q, st, i) ==
    LET e == ets[i + 1] IN
    IF e.type = 1
    THEN IF st.j >= Len(q) THEN [st EXCEPT !.err = "IndexError"]
         ELSE Strict(LAMBDA T :
                  IF T.err # "ok" THEN [st EXCEPT !.err = T.err]
                  ELSE [st EXCEPT !.trans = Mul4(T.T, st.trans), !.j = st.j + 1,
                                  !.reads = Append(st.reads, st.j)],
                  ET_T(e, Some(q[st.j + 1])))
    ELSE Strict(LAMBDA T :
             IF T.err # "ok" THEN [st EXCEPT !.err = T.err]
             ELSE [st EXCEPT !.trans = Mul4(T.T, st.trans)],
             ET_T(e, None))

\* one pass of the loop body for index i; st.reads logs the subscripts of q read
fkine_iter(ets, q, st, i) ==
    LET e == ets[i + 1] IN
    IF e.type = 1
    THEN IF st.j >= Len(q) THEN [st EXCEPT !.err = "IndexError"]
         ELSE Strict(LAMBDA T :
                  IF T.err # "ok" THEN [st EXCEPT !.err = T.err]
                  ELSE [st EXCEPT !.trans = Mul4(st.trans, T.T), !.j = st.j + 1,
                                  !.reads = Append(st.reads, st.j)],
                  ET_T(e, Some(q[st.j + 1])))
    ELSE Strict(LAMBDA T :
             IF T.err # "ok" THEN [st EXCEPT !.err = T.err]
             ELSE [st EXCEPT !.trans = Mul4(st.trans, T.T)],
             ET_T(e, None))

RECURSIVE fkine_loop(_, _, _, _)
fkine_loop(obj, q, st, i) ==
    IF i >= obj.M \/ st.err # "ok" THEN st
    ELSE Strict(LAMBDA s : fkine_loop(obj, q, s, i + 1), fkine_iter(obj.ets, q, st, i))

\* the whole method: what it returns (val) or raises (err)
fkine(obj, q) ==
    Strict(LAMBDA st :
        IF st.err # "ok" THEN [err |-> st.err, val |-> <<>>]
        ELSE [err |-> "ok", val |-> Mul4(st.trans, obj.tool)],
        fkine_loop(obj, q, fkine_locals, 0))

(***************************************************************************)
(* ETS.jacob0                                                              *)
(***************************************************************************)
zeros2(r, c) == [x \in 1..r |-> zeros(c)]

\* U, j and J of the source, the error raised so far, and a log of the column
\* writes: the column subscript with the value of U at the write
jacob0_locals(n) == [U |-> eye4, j |-> 0, J |-> zeros2(6, n), err |-> "ok", writes |-> <<>>]

\* the statements of the rotate-z branch after U = U @ T(q[j]); Ui is inv(U)
jacob0_column(st, T, U, Ui) ==
    IF Ui.err # "ok" THEN [st EXCEPT !.U = U, !.err = Ui.err]
    ELSE Strict(LAMBDA Tu :
         LET n  == <<U[1][1], U[2][1], U[3][1]>>
             o  == <<U[1][2], U[2][2], U[3][2]>>
             a  == <<U[1][3], U[2][3], U[3][3]>>
             y  == Tu[2][4]
             x  == Tu[1][4]
             c  == st.j + 1
         IN  [st EXCEPT !.U = U,
                        !.J = [st.J EXCEPT ![1][c] = o[1] * x - n[1] * y,
                                           ![2][c] = o[2] * x - n[2] * y,
                                           ![3][c] = o[3] * x - n[3] * y,
                                           ![4][c] = a[1],
                                           ![5][c] = a[2],
                                           ![6][c] = a[3]],
                        !.j = st.j + 1,
                        !.writes = Append(st.writes, [j |-> st.j, U |-> U])],
         Mul4([r \in 1..4 |-> [c \in 1..4 |-> Ui.adj[r][c] \div Ui.d]], T))

\* jacob0_iter with the fixed elements left out of the running transform U
jacob0_iter_drops_fixed(obj, q, T, st, i) ==
    IF st.j >= Len(obj.q_idx) THEN [st EXCEPT !.err = "IndexError"]
    ELSE IF i # obj.q_idx[st.j + 1]
    THEN Strict(LAMBDA E : IF E.err # "ok" THEN [st EXCEPT !.err = E.err] ELSE st,
                ET_T(obj.ets[i + 1], None))
    ELSE IF obj.ets[i + 1].axis_func = "TRz"
    THEN IF st.j >= Len(q) THEN [st EXCEPT !.err = "IndexError"]
         ELSE Strict(LAMBDA E :
                  IF E.err # "ok" THEN [st EXCEPT !.err = E.err]
                  ELSE Strict(LAMBDA U :
                           Strict(LAMBDA Ui : jacob0_column(st, T, U, Ui), inv(U, 4)),
                           Mul4(st.U, E.T)),
                  ET_T(obj.ets[i + 1], Some(q[st.j + 1])))
    ELSE st

\* one pass of the loop body for index i; T is fkine(q)
jacob0_iter(obj, q, T, st, i) ==
    IF st.j >= Len(obj.q_idx) THEN [st EXCEPT !.err = "IndexError"]
    ELSE IF i # obj.q_idx[st.j + 1]
    THEN Strict(LAMBDA E :
             IF E.err # "ok" THEN [st EXCEPT !.err = E.err]
             ELSE [st EXCEPT !.U = Mul4(st.U, E.T)],
             ET_T(obj.ets[i + 1], None))
    ELSE IF obj.ets[i + 1].axis_func = "TRz"
    THEN IF st.j >= Len(q) THEN [st EXCEPT !.err = "IndexError"]
         ELSE Strict(LAMBDA E :
                  IF E.err # "ok" THEN [st EXCEPT !.err = E.err]
                  ELSE Strict(LAMBDA U :
                           Strict(LAMBDA Ui : jacob0_column(st, T, U, Ui), inv(U, 4)),
                           Mul4(st.U, E.T)),
                  ET_T(obj.ets[i + 1], Some(q[st.j + 1])))
    ELSE st

RECURSIVE jacob0_loop(_, _, _, _, _)
jacob0_loop(obj, q, T, st, i) ==
    IF i >= obj.M \/ st.err # "ok" THEN st
    ELSE Strict(LAMBDA s : jacob0_loop(obj, q, T, s, i + 1), jacob0_iter(obj, q, T, st, i))

jacob0(obj, q) ==
    Strict(LAMBDA T :
        IF T.err # "ok" THEN [err |-> T.err, val |-> <<>>]
        ELSE Strict(LAMBDA st :
                 IF st.err # "ok" THEN [err |-> st.err, val |-> <<>>]
                 ELSE [err |-> "ok", val |-> st.J],
                 jacob0_loop(obj, q, T.val, jacob0_locals(obj.n), 0)),
        fkine(obj, q))

(***************************************************************************)
(* ETS.hessian0                                                            *)
(***************************************************************************)
zeros3(n) == [k \in 1..6 |-> zeros2(n, n)]

\* hessian0_iter without the mirror statement
hessian0_iter_no_mirror(J, st, i, j) ==
    LET Jw(k) == <<J[4][k + 1], J[5][k + 1], J[6][k + 1]>>
        Jv(k) == <<J[1][k + 1], J[2][k + 1], J[3][k + 1]>>
        t  == cross(Jw(j), Jv(i))
        w  == cross(Jw(j), Jw(i))
    IN  [H |-> [st.H EXCEPT ![1][i + 1][j + 1] = t[1],
                            ![2][i + 1][j + 1] = t[2],
                            ![3][i + 1][j + 1] = t[3],
                            ![4][i + 1][j + 1] = w[1],
                            ![5][i + 1][j + 1] = w[2],
                            ![6][i + 1][j + 1] = w[3]],
         writes |-> Append(st.writes, <<i, j>>)]

\* hessian0_iter with the mirror statement copying all six rows
hessian0_iter_mirrors_all(J, st, i, j) ==
    LET Jw(k) == <<J[4][k + 1], J[5][k + 1], J[6][k + 1]>>
        Jv(k) == <<J[1][k + 1], J[2][k + 1], J[3][k + 1]>>
        t  == cross(Jw(j), Jv(i))
        w  == cross(Jw(j), Jw(i))
        H1 == [st.H EXCEPT ![1][i + 1][j + 1] = t[1],
                           ![2][i + 1][j + 1] = t[2],
                           ![3][i + 1][j + 1] = t[3],
                           ![4][i + 1][j + 1] = w[1],
                           ![5][i + 1][j + 1] = w[2],
                           ![6][i + 1][j + 1] = w[3]]
        H2 == IF i # j
              THEN [k \in 1..6 |-> [H1[k] EXCEPT ![j + 1][i + 1] = H1[k][i + 1][j + 1]]]
              ELSE H1
    IN  [H |-> H2, writes |-> Append(st.writes, <<i, j>>)]

\* the body of the inner loop for the pair (i, j); st.writes logs the pairs
\* assigned by the two cross-product statements
hessian0_iter(J, st, i, j) ==
    LET Jw(k) == <<J[4][k + 1], J[5][k + 1], J[6][k + 1]>>
        Jv(k) == <<J[1][k + 1], J[2][k + 1], J[3][k + 1]>>
        t  == cross(Jw(j), Jv(i))
        w  == cross(Jw(j), Jw(i))
        H1 == [st.H EXCEPT ![1][i + 1][j + 1] = t[1],
                           ![2][i + 1][j + 1] = t[2],
                           ![3][i + 1][j + 1] = t[3],
                           ![4][i + 1][j + 1] = w[1],
                           ![5][i + 1][j + 1] = w[2],
                           ![6][i + 1][j + 1] = w[3]]
        H2 == IF i # j
              THEN [H1 EXCEPT ![1][j + 1][i + 1] = H1[1][i + 1][j + 1],
                              ![2][j + 1][i + 1] = H1[2][i + 1][j + 1],
                              ![3][j + 1][i + 1] = H1[3][i + 1][j + 1]]
              ELSE H1
    IN  [H |-> H2, writes |-> Append(st.writes, <<i, j>>)]

RECURSIVE hessian0_inner(_, _, _, _, _)
hessian0_inner(J, st, i, j, n) ==
    IF i >= n THEN st
    ELSE Strict(LAMBDA s : hessian0_inner(J, s, i + 1, j, n), hessian0_iter(J, st, i, j))

RECURSIVE hessian0_outer(_, _, _, _)
hessian0_outer(J, st, j, n) ==
    IF j >= n THEN st
    ELSE Strict(LAMBDA s : hessian0_outer(J, s, j + 1, n), hessian0_inner(J, st, j, j, n))

\* Ja is None or Some(J)
hessian0(obj, q, Ja) ==
    Strict(LAMBDA J :
        IF J.err # "ok" THEN [err |-> J.err, val |-> <<>>, J |-> <<>>, writes |-> <<>>]
        ELSE Strict(LAMBDA st : [err |-> "ok", val |-> st.H, J |-> J.val, writes |-> st.writes],
                    hessian0_outer(J.val, [H |-> zeros3(obj.n), writes |-> <<>>], 0, obj.n)),
        IF Ja = None THEN jacob0(obj, q) ELSE [err |-> "ok", val |-> Ja[1]])

(***************************************************************************)
(* ETS.manipulability and ETS.jacobm                                       *)
(***************************************************************************)
JJt(J, n) == MatMul(J, Transpose(J, 6, n), 6, n, 6)

\* the value returned is numpy.sqrt(d), kept as its radicand d
manipulability(obj, q, Ja) ==
    Strict(LAMBDA J :
        IF J.err # "ok" THEN [err |-> J.err, val |-> <<>>]
        ELSE [err |-> "ok", val |-> [sqrt |-> det(JJt(J.val, obj.n), 6)]],
        IF Ja = None THEN jacob0(obj, q) ELSE [err |-> "ok", val |-> Ja[1]])

\* the loop of jacobm: Jm[i, 0] = m * (c.flatten('F') . b.flatten('F')) with
\* b = adj / d; the entry is kept as the exact triple (m, num, den), its value
\* m * num / den
jacobm_loop(n, m, J, H, b) ==
    LET Hi(i) == [k \in 1..6 |-> [a \in 1..n |-> H[k][a][i + 1]]]
        dot(c) == SumTo([y \in 1..6 |-> SumTo([x \in 1..6 |-> c[x][y] * b.adj[x][y]], 6)], 6)
    IN  [i \in 1..n |->
            [m |-> m,
             num |-> Strict(dot, MatMul(J, Transpose(Hi(i - 1), 6, n), 6, n, 6)),
             den |-> b.d]]

jacobm(obj, q, Ja) ==
    Strict(LAMBDA m :
      IF m.err # "ok" THEN [err |-> m.err, val |-> <<>>]
      ELSE Strict(LAMBDA J :
        IF J.err # "ok" THEN [err |-> J.err, val |-> <<>>]
        ELSE Strict(LAMBDA H :
          IF H.err # "ok" THEN [err |-> H.err, val |-> <<>>]
          ELSE Strict(LAMBDA b :
            IF b.err # "ok" THEN [err |-> b.err, val |-> <<>>]
            ELSE [err |-> "ok", val |-> jacobm_loop(obj.n, m.val, J.val, H.val, b)],
            inv(JJt(J.val, obj.n), 6)),
          hessian0(obj, q, None)),
        IF Ja = None THEN jacob0(obj, q) ELSE [err |-> "ok", val |-> Ja[1]]),
      manipulability(obj, q, None))

(***************************************************************************)
(* Inputs                                                                  *)
(***************************************************************************)
Tx1 == et("Ttx", Some(1), None)      \* a fixed unit translation along x
Rx1 == et("TRx", Some(1), None)      \* a fixed quarter turn about x
Rzq == et("TRz", None, None)         \* a revolute joint about z
Tzq == et("Ttz", None, None)         \* a prismatic joint along z

ETAlphabet == {Tx1, Rx1, Rzq, Tzq}

SeqsUpTo(S, n) == UNION {[1..k -> S] : k \in 0..n}

\* the two-link planar arm, and the arm with its second axis twisted
Arms == {<<Rzq, Tx1, Rzq>>, <<Rzq, Rx1, Rzq>>}

Chains == SeqsUpTo(ETAlphabet, MaxM) \cup Arms

\* the positions (0-based, increasing) of the variable elements of a sequence
RECURSIVE VarPositions(_, _)
VarPositions(s, k) ==
    IF k = 0 THEN <<>>
    ELSE IF s[k].type = VARIABLE_ET THEN Append(VarPositions(s, k - 1), k - 1)
    ELSE VarPositions(s, k - 1)

Tools == {eye4, Ttx(1)}
QVals == 0..MaxQ
QVecs(n) == UNION {[1..k -> QVals] : k \in {m \in (n - 1)..(n + 1) : m >= 0}}

\* 6 x n matrices a caller may pass as J, built from a few columns [v; w]
JCols == {<<1, 0, 0, 0, 0, 1>>, <<0, 1, 0, 1, 0, 0>>, <<1, 1, 0, 0, 1, 1>>}
JMats(n) == {[r \in 1..6 |-> [k \in 1..n |-> cs[k][r]]] : cs \in [1..n -> JCols]}
JArgs(n) == {None} \cup {Some(J) : J \in JMats(n)}

idle == [op |-> "none"]

Init ==
    /\ \E s \in Chains, tool \in Tools :
          self = ETS_init(s, VarPositions(s, Len(s)), "noname", "", eye4, tool)
    /\ built = self
    /\ pc = "idle"
    /\ arg = idle
    /\ loc = idle
    /\ ret = idle

fkine_call ==
    /\ pc = "idle"
    /\ \E q \in QVecs(self.n) : arg' = [op |-> "fkine", q |-> q]
    /\ pc' = "fkine"
    /\ loc' = [i |-> 0, st |-> fkine_locals]
    /\ ret' = idle
    /\ UNCHANGED <<self, built>>

fkine_step ==
    /\ pc = "fkine"
    /\ loc.i < self.M
    /\ LET st == fkine_iter(self.ets, arg.q, loc.st, loc.i) IN
       IF st.err # "ok"
       THEN /\ ret' = [op |-> "fkine", q |-> arg.q, err |-> st.err, val |-> <<>>,
                       reads |-> st.reads]
            /\ pc' = "returned"
            /\ loc' = idle
            /\ arg' = idle
       ELSE /\ loc' = [i |-> loc.i + 1, st |-> st]
            /\ UNCHANGED <<pc, ret, arg>>
    /\ UNCHANGED <<self, built>>

\* fkine_return that also stores the joint vector in the object
fkine_return_stores_q ==
    /\ pc = "fkine"
    /\ loc.i >= self.M
    /\ ret' = [op |-> "fkine", q |-> arg.q, err |-> "ok",
               val |-> Mul4(loc.st.trans, self.tool), reads |-> loc.st.reads]
    /\ pc' = "returned"
    /\ loc' = idle
    /\ arg' = idle
    /\ self' = [self EXCEPT !.q = arg.q]
    /\ UNCHANGED built

fkine_return ==
    /\ pc = "fkine"
    /\ loc.i >= self.M
    /\ ret' = [op |-> "fkine", q |-> arg.q, err |-> "ok",
               val |-> Mul4(loc.st.trans, self.tool), reads |-> loc.st.reads]
    /\ pc' = "returned"
    /\ loc' = idle
    /\ arg' = idle
    /\ UNCHANGED <<self, built>>

jacob0_call ==
    /\ pc = "idle"
    /\ \E q \in QVecs(self.n) :
          LET T == fkine(self, q) IN
          IF T.err # "ok"
          THEN /\ ret' = [op |-> "jacob0", q |-> q, err |-> T.err, val |-> <<>>,
                          writes |-> <<>>]
               /\ pc' = "returned"
               /\ UNCHANGED <<arg, loc>>
          ELSE /\ arg' = [op |-> "jacob0", q |-> q]
               /\ pc' = "jacob0"
               /\ loc' = [i |-> 0, T |-> T.val, st |-> jacob0_locals(self.n)]
               /\ ret' = idle
    /\ UNCHANGED <<self, built>>

jacob0_step ==
    /\ pc = "jacob0"
    /\ loc.i < self.M
    /\ LET st == jacob0_iter(self, arg.q, loc.T, loc.st, loc.i) IN
       IF st.err # "ok"
       THEN /\ ret' = [op |-> "jacob0", q |-> arg.q, err |-> st.err, val |-> <<>>,
                       writes |-> st.writes]
            /\ pc' = "returned"
            /\ loc' = idle
            /\ arg' = idle
       ELSE /\ loc' = [loc EXCEPT !.i = loc.i + 1, !.st = st]
            /\ UNCHANGED <<pc, ret, arg>>
    /\ UNCHANGED <<self, built>>

jacob0_return ==
    /\ pc = "jacob0"
    /\ loc.i >= self.M
    /\ ret' = [op |-> "jacob0", q |-> arg.q, err |-> "ok", val |-> loc.st.J,
               writes |-> loc.st.writes]
    /\ pc' = "returned"
    /\ loc' = idle
    /\ arg' = idle
    /\ UNCHANGED <<self, built>>

\* the arguments (q, J) of hessian0, manipulability and jacobm: q has length
\* n; a caller that passes J passes the stored joint vector as q
CallArgs == {[q |-> q, J |-> None] : q \in [1..self.n -> QVals]}
              \cup {[q |-> self.q, J |-> J] : J \in JArgs(self.n)}

hessian0_call ==
    /\ pc = "idle"
    /\ \E a \in CallArgs :
          LET H == hessian0(self, a.q, a.J) IN
          ret' = [op |-> "hessian0", q |-> a.q, Jarg |-> a.J, err |-> H.err, val |-> H.val,
                  J |-> H.J, writes |-> H.writes]
    /\ pc' = "returned"
    /\ UNCHANGED <<self, built, arg, loc>>

manipulability_call ==
    /\ pc = "idle"
    /\ \E a \in CallArgs :
          LET m == manipulability(self, a.q, a.J) IN
          ret' = [op |-> "manipulability", q |-> a.q, Jarg |-> a.J, err |-> m.err,
                  val |-> m.val]
    /\ pc' = "returned"
    /\ UNCHANGED <<self, built, arg, loc>>

jacobm_call ==
    /\ pc = "idle"
    /\ \E a \in CallArgs :
          LET Jm == jacobm(self, a.q, a.J) IN
          ret' = [op |-> "jacobm", q |-> a.q, Jarg |-> a.J, err |-> Jm.err, val |-> Jm.val]
    /\ pc' = "returned"
    /\ UNCHANGED <<self, built, arg, loc>>

\* the caller has taken the result and is ready to call again
caller_continue ==
    /\ pc = "returned"
    /\ pc' = "idle"
    /\ ret' = idle
    /\ UNCHANGED <<self, built, arg, loc>>

Next ==
    \/ caller_continue
    \/ fkine_call
    \/ fkine_step
    \/ fkine_return
    \/ jacob0_call
    \/ jacob0_step
    \/ jacob0_return
    \/ hessian0_call
    \/ manipulability_call
    \/ jacobm_call

Spec == Init /\ [][Next]_vars

(***************************************************************************)
(* The DH adapter run on a robot description.                              *)
(***************************************************************************)
DHVals == 0..MaxDH
Links == [a : DHVals, alpha : DHVals, d : DHVals, theta : DHVals, is_revolute : BOOLEAN]
Robots == {[name |-> "robot", manuf |-> "maker", n |-> Len(ls), links |-> ls, mdh |-> m,
            base |-> eye4, tool |-> Ttx(1)] :
               ls \in SeqsUpTo(Links, MaxLinks), m \in BOOLEAN}

InitDH ==
    /\ \E r \in Robots, b \in BOOLEAN :
          arg = [op |-> "dh_to_ets", robot |-> r, et_bound |-> b]
    /\ pc = "dh_to_ets"
    /\ loc = [j |-> 0, st |-> dh_locals]
    /\ self = idle
    /\ built = idle
    /\ ret = idle

dh_to_ets_step ==
    /\ pc = "dh_to_ets"
    /\ loc.j < arg.robot.n
    /\ LET st == dh_to_ets_iter(arg.robot, arg.et_bound, loc.st, loc.j) IN
       IF st.err # "ok"
       THEN /\ ret' = [op |-> "dh_to_ets", err |-> st.err]
            /\ pc' = "done"
            /\ loc' = idle
       ELSE /\ loc' = [j |-> loc.j + 1, st |-> st]
            /\ UNCHANGED <<pc, ret>>
    /\ UNCHANGED <<self, built, arg>>

dh_to_ets_return ==
    /\ pc = "dh_to_ets"
    /\ loc.j >= arg.robot.n
    /\ self' = ETS_init(loc.st.ets, loc.st.q_idx, arg.robot.name, arg.robot.manuf,
                        arg.robot.base, arg.robot.tool)
    /\ built' = self'
    /\ ret' = [op |-> "dh_to_ets", err |-> "ok"]
    /\ pc' = "done"
    /\ loc' = idle
    /\ UNCHANGED arg

NextDH ==
    \/ dh_to_ets_step
    \/ dh_to_ets_return

SpecDH == InitDH /\ [][NextDH]_vars

(***************************************************************************)
(* Properties.                                                             *)
(***************************************************************************)
\* The chain is well formed: q_idx lists the positions of its variable elements.
WellFormed(obj) == obj.q_idx = VarPositions(obj.ets, Len(obj.ets))

\* Every joint of the chain is a rotate-z variable transform.
AllRz(obj) == \A k \in 1..obj.n : obj.ets[obj.q_idx[k] + 1].axis_func = "TRz"

\* The transform of the element at position p (0-based) when the joint
\* coordinates are q: joint k's element takes q[k], found through q_idx.
ElementAt(obj, q, p) ==
    LET e == obj.ets[p + 1] IN
    IF \E k \in 1..obj.n : obj.q_idx[k] = p
    THEN axis_func(e.axis_func, q[CHOOSE k \in 1..obj.n : obj.q_idx[k] = p])
    ELSE axis_func(e.axis_func, e.eta[1])

\* E_p . E_(p+1) ... E_(M-1) . tool
RECURSIVE ProductFrom(_, _, _)
ProductFrom(obj, q, p) ==
    IF p >= obj.M THEN obj.tool ELSE Mul4(ElementAt(obj, q, p), ProductFrom(obj, q, p + 1))

\* the running product of fkine after the elements 0..p
FkPrefix(obj, q, p) == fkine_loop([obj EXCEPT !.M = p + 1], q, fkine_locals, 0).trans

\* C1: fkine called with a joint vector whose length differs from n reports
\* an invalid-argument error, whether q is too long or too short.
C1_LengthMismatchRejected ==
    (ret.op = "fkine" /\ Len(ret.q) # built.n) => ret.err = "InvalidArgument"

\* C2: for a well-formed chain and q of length n, fkine returns the ordered
\* right-product E_0 ... E_(M-1) . tool with the k-th variable element taken at
\* q[k], and it reads the entries 0, 1, ..., n-1 of q once each, in that order.
C2_FkineOrderedProduct ==
    (ret.op = "fkine" /\ WellFormed(built) /\ Len(ret.q) = built.n)
        => /\ ret.err = "ok"
           /\ ret.val = ProductFrom(built, ret.q, 0)
           /\ ret.reads = [k \in 1..built.n |-> k - 1]

C2_Witness ==
    /\ ret.op = "fkine" /\ ret.err = "ok"
    /\ Len(ret.q) = built.n /\ built.n = 2 /\ built.M = 3
    /\ ret.q[1] # ret.q[2]
    /\ built.tool # eye4
    /\ ret.reads = <<0, 1>>

\* C3: in the tensor hessian0 returns, the translational block is symmetric in
\* the joint indices: H[:3,i,j] = H[:3,j,i] for all i # j.
C3_HessianSymmetric ==
    (ret.op = "hessian0" /\ ret.err = "ok")
        => \A i \in 1..built.n, j \in 1..built.n, k \in 1..3 :
              ret.val[k][i][j] = ret.val[k][j][i]

C3_Witness ==
    /\ ret.op = "hessian0" /\ ret.err = "ok" /\ ret.Jarg = None
    /\ \E i \in 1..built.n, j \in 1..built.n, k \in 1..3 :
          i # j /\ ret.val[k][i][j] # 0

\* C4: hessian0 returns a 6 x n x n tensor with, for every pair i >= j,
\* H[:3,i,j] = J[3:,j] x J[:3,i] and H[3:,i,j] = J[3:,j] x J[3:,i]; every such
\* pair is written; the angular entries H[3:,j,i] with j < i stay zero.
C4_HessianEntries ==
    (ret.op = "hessian0" /\ ret.err = "ok")
        => LET n == built.n
               J == ret.J
               H == ret.val
               Jv(c) == <<J[1][c], J[2][c], J[3][c]>>
               Jw(c) == <<J[4][c], J[5][c], J[6][c]>>
           IN  /\ Len(H) = 6
               /\ \A k \in 1..6 : Len(H[k]) = n /\ \A i \in 1..n : Len(H[k][i]) = n
               /\ \A i \in 1..n, j \in 1..n :
                     i >= j => /\ <<H[1][i][j], H[2][i][j], H[3][i][j]>> = cross(Jw(j), Jv(i))
                               /\ <<H[4][i][j], H[5][i][j], H[6][i][j]>> = cross(Jw(j), Jw(i))
               /\ {ret.writes[k] : k \in 1..Len(ret.writes)}
                     = {w \in (0..(n - 1)) \X (0..(n - 1)) : w[1] >= w[2]}
               /\ \A i \in 1..n, j \in 1..n, k \in 4..6 : j < i => H[k][j][i] = 0

C4_Witness ==
    /\ ret.op = "hessian0" /\ ret.err = "ok" /\ ret.Jarg # None
    /\ \E i \in 1..built.n, j \in 1..built.n, k \in 4..6 :
          j < i /\ ret.val[k][i][j] # 0 /\ ret.val[k][j][i] = 0

\* C5: no call changes the chain: its fields stay as the constructor left them
\* and the stored joint vector stays the zero vector of length n; what fkine and
\* jacob0 return, reached step by step after any earlier calls, is what the
\* method computes from the constructed chain and the call's own q.  (The
\* other three methods are single steps that read self and their arguments.)
C5_ChainUnchanged ==
    /\ self = built
    /\ self.q = zeros(self.n)
    /\ self.M = Len(self.ets) /\ self.n = Len(self.q_idx)
    /\ ret.op = "fkine" =>
          [err |-> ret.err, val |-> ret.val] = fkine(built, ret.q)
    /\ ret.op = "jacob0" =>
          [err |-> ret.err, val |-> ret.val] = jacob0(built, ret.q)

C5_Witness ==
    /\ ret.op = "manipulability" /\ ret.err = "ok" /\ ret.Jarg = None
    /\ self.n = 2 /\ Len(ret.q) = 2 /\ ret.q # self.q
    /\ self = built

\* C6: the chain dh_to_ets returns satisfies the chain invariant: n = robot.n
\* = the number of variable elements, q_idx is strictly increasing, and
\* q_idx[k] is the position of joint k's variable transform.
C6_DhChainInvariant ==
    (pc = "done" /\ ret.err = "ok")
        => /\ self.n = arg.robot.n
           /\ self.n = Cardinality({p \in 1..self.M : self.ets[p].type = VARIABLE_ET})
           /\ \A k \in 1..(Len(self.q_idx) - 1) : self.q_idx[k] < self.q_idx[k + 1]
           /\ \A k \in 1..Len(self.q_idx) :
                 /\ self.q_idx[k] + 1 \in 1..self.M
                 /\ self.ets[self.q_idx[k] + 1].type = VARIABLE_ET
                 /\ self.ets[self.q_idx[k] + 1].i = Some(k)

\* the elements the claim C7 expects for one link (joint number jn)
LinkElements(L, jn) ==
    (IF L.a # 0 THEN <<et("Ttx", Some(L.a), None)>> ELSE <<>>)
    \o (IF L.alpha # 0 THEN <<et("TRx", Some(L.alpha), None)>> ELSE <<>>)
    \o (IF L.is_revolute /\ L.d # 0 THEN <<et("Ttz", Some(L.d), None)>> ELSE <<>>)
    \o (IF ~L.is_revolute /\ L.theta # 0 THEN <<et("TRz", Some(L.theta), None)>> ELSE <<>>)
    \o <<et(IF L.is_revolute THEN "TRz" ELSE "Ttz", None, Some(jn))>>

RECURSIVE RobotElements(_, _)
RobotElements(robot, k) ==
    IF k = 0 THEN <<>> ELSE RobotElements(robot, k - 1) \o LinkElements(robot.links[k], k)

\* C7: for every link dh_to_ets emits exactly the fixed transforms of the
\* link's nonzero DH parameters, each with its own parameter's value (Tx with a,
\* Rx with alpha, Tz with d for a revolute link, Rz with theta for a prismatic
\* link), and then the link's one variable transform, last for the link.
C7_DhLinkElements ==
    (pc = "done" /\ ret.err = "ok") => self.ets = RobotElements(arg.robot, arg.robot.n)

\* C8: on a well-formed chain whose joints are all rotate-z, with q of length
\* n, jacob0 completes without error and returns a 6 x n matrix, and whenever
\* the pass is about to subscript q_idx with j, j is within 0..n-1.
C8_Jacob0Completes ==
    /\ (ret.op = "jacob0" /\ WellFormed(built) /\ AllRz(built) /\ Len(ret.q) = built.n)
          => /\ ret.err = "ok"
             /\ Len(ret.val) = 6
             /\ \A r \in 1..6 : Len(ret.val[r]) = built.n
    /\ (pc = "jacob0" /\ WellFormed(built) /\ AllRz(built) /\ loc.i < built.M)
          => loc.st.j \in 0..(built.n - 1)

\* C9: on a chain with a joint that is not rotate-z, jacob0 raises no error
\* and skips that joint only: the columns of the non-rotate-z joints are zero
\* and every rotate-z joint, also one after a skipped joint, has its column
\* written from the running transform through its own element.
C9_Jacob0SkipsOnlyNonRz ==
    (ret.op = "jacob0" /\ WellFormed(built) /\ ~AllRz(built) /\ Len(ret.q) = built.n)
        => /\ ret.err = "ok"
           /\ \A k \in 1..built.n :
                 IF built.ets[built.q_idx[k] + 1].axis_func = "TRz"
                 THEN \E w \in 1..Len(ret.writes) :
                         /\ ret.writes[w].j = k - 1
                         /\ ret.writes[w].U = FkPrefix(built, ret.q, built.q_idx[k])
                 ELSE \A r \in 1..6 : ret.val[r][k] = 0

\* the log of column writes ws agrees with the forward-kinematics prefixes:
\* the w-th write is of column w-1, made when U = E_0 ... E_(q_idx[w-1])
WritesFollowFk(obj, q, ws) ==
    \A w \in 1..Len(ws) :
        /\ ws[w].j = w - 1
        /\ w <= obj.n
        /\ ws[w].U = FkPrefix(obj, q, obj.q_idx[w])

\* C10: in the pass of jacob0 over a well-formed all-rotate-z chain, column j
\* is written when U equals the forward-kinematics prefix product through joint
\* j's element; the columns are written once each, in increasing order, and by
\* the end of the pass all n of them have been written.
C10_Jacob0FollowsFkine ==
    /\ (pc = "jacob0" /\ WellFormed(built) /\ AllRz(built))
          => /\ WritesFollowFk(built, arg.q, loc.st.writes)
             /\ Len(loc.st.writes)
                   = Cardinality({k \in 1..built.n : built.q_idx[k] < loc.i})
    /\ (ret.op = "jacob0" /\ WellFormed(built) /\ AllRz(built) /\ Len(ret.q) >= built.n)
          => /\ WritesFollowFk(built, ret.q, ret.writes)
             /\ Len(ret.writes) = built.n

C10_Witness ==
    /\ ret.op = "jacob0" /\ ret.err = "ok"
    /\ AllRz(built) /\ built.n = 2 /\ built.M = 3
    /\ Len(ret.writes) = 2
    /\ ret.writes[1].U # ret.writes[2].U
    /\ ret.q[1] # 0

=============================================================================
